---- MODULE Spec2Model ----
(***************************************************************************)
(* Poll integrity and vote authorization of alx-polly: the server actions  *)
(* createPoll, updatePoll, deletePoll and submitVote (poll-actions) run    *)
(* against the polls and votes tables of the external store.  Every await  *)
(* on the store or on the identity service is one atomic step; calls of    *)
(* different requests interleave between steps.  The pages PollCreateForm,  *)
(* PollDetailPage and LoginPage guard their server action with a token     *)
(* kept in the tab's sessionStorage.                                       *)
(***************************************************************************)
EXTENDS Integers, Sequences, FiniteSets, Bags, TLC

(* ------------------------------ bounds --------------------------------- *)

\* polls the store ever generates an id for
MaxPolls == 1

\* vote rows the votes table holds at a time
MaxVotes == 2

\* submitted option lists carry up to MaxOptions + ExtraOptions entries
ExtraOptions == 2

\* tokens Math.random() generates in one behaviour
MaxIssued == 3

\* the count of passed token checks per stored token saturates here
MaxPasses == 2

\* the age of a stored token is counted, in idle periods, up to
MaxAge == 2

(* ------------------------- program constants --------------------------- *)

MinOptions == 2

MaxOptions == 20

(* ------------------------------ strings -------------------------------- *)
\* A string is a sequence of UTF-16 code units.

WhiteSpace == {9, 10, 11, 12, 13, 32, 160}

RECURSIVE TrimStart(_)
TrimStart(s) ==
  IF s = <<>> THEN s
  ELSE IF Head(s) \in WhiteSpace THEN TrimStart(Tail(s)) ELSE s

RECURSIVE TrimEnd(_)
TrimEnd(s) ==
  IF s = <<>> THEN s
  ELSE IF s[Len(s)] \in WhiteSpace THEN TrimEnd(SubSeq(s, 1, Len(s) - 1)) ELSE s

\* String.prototype.trim
Trim(s) == TrimEnd(TrimStart(s))

\* String.prototype.toLowerCase on the letters A-Z
ToLowerCase(s) ==
  [i \in DOMAIN s |-> IF s[i] \in 65..90 THEN s[i] + 32 ELSE s[i]]

\* A FormData entry value is a string or a File.
StringEntry(s) == [isString |-> TRUE, text |-> s]

FileEntry == [isString |-> FALSE, text |-> <<>>]

\* .map(opt => typeof opt === 'string' ? opt.trim() : '')
TrimEntry(e) == IF e.isString THEN Trim(e.text) ELSE <<>>

MapTrim(entries) == [i \in DOMAIN entries |-> TrimEntry(entries[i])]

\* .filter(Boolean) on strings keeps the non-empty ones
FilterBoolean(strs) == SelectSeq(strs, LAMBDA s : s /= <<>>)

\* the empty texts not filtered out
MutSanitizeOptions(entries) == MapTrim(entries)

\* formData.getAll("options").map(...).filter(Boolean)
SanitizeOptions(entries) == FilterBoolean(MapTrim(entries))

\* options.map(opt => opt.trim())
TrimAll(strs) == [i \in DOMAIN strs |-> Trim(strs[i])]

\* new Set(options).size
SetSize(strs) == Cardinality({strs[i] : i \in DOMAIN strs})

\* !question || question.trim() === ''
QuestionInvalid(question) == question = <<>> \/ Trim(question) = <<>>

(* --------------------------- error messages ---------------------------- *)

ErrQuestion == "Please provide a valid question"
ErrTwoOptions == "Please provide at least two options"
ErrUnique == "All options must be unique"
ErrMaxOptions == "Maximum of 20 options allowed"
ErrAuthFailed == "Authentication failed"
ErrLoginCreate == "You must be logged in to create a poll"
ErrLoginUpdate == "You must be logged in to update a poll"
ErrLoginDelete == "You must be logged in to delete a poll"
ErrCreateFailed == "Failed to create poll"
ErrUpdateFailed == "Failed to update poll"
ErrInvalidId == "Invalid poll ID"
ErrInvalidIdFormat == "Invalid poll ID format"
ErrInvalidOption == "Invalid option selected"
ErrPollNotFound == "Poll not found"
ErrAlreadyVoted == "You have already voted on this poll"
ErrVoteFailed == "Failed to submit vote"
ErrDeleteVotesFailed == "Failed to delete poll votes"
ErrDeleteFailed == "Failed to delete poll"
ErrNoPermissionDelete == "You do not have permission to delete this poll"
ErrNoPermissionUpdate == "You do not have permission to update this poll"
Success == "ok"

(* ------------------------- input validation ---------------------------- *)

\* the limit tested with >= for >
MutCreatePollValidate(question, entries) ==
  LET options == SanitizeOptions(entries) IN
  IF QuestionInvalid(question) THEN ErrQuestion
  ELSE IF Len(options) < MinOptions THEN ErrTwoOptions
  ELSE IF SetSize(options) /= Len(options) THEN ErrUnique
  ELSE IF Len(options) >= MaxOptions THEN ErrMaxOptions
  ELSE Success

\* createPoll, the checks before the first store call: the error message
\* returned, or Success.
CreatePollValidate(question, entries) ==
  LET options == SanitizeOptions(entries) IN
  IF QuestionInvalid(question) THEN ErrQuestion
  ELSE IF Len(options) < MinOptions THEN ErrTwoOptions
  ELSE IF SetSize(options) /= Len(options) THEN ErrUnique
  ELSE IF Len(options) > MaxOptions THEN ErrMaxOptions
  ELSE Success

\* the check for duplicate options left out
MutUpdatePollValidate(question, entries) ==
  LET options == SanitizeOptions(entries) IN
  IF QuestionInvalid(question) THEN ErrQuestion
  ELSE IF Len(options) < MinOptions THEN ErrTwoOptions
  ELSE Success

\* updatePoll, the checks on question and options before the first store call.
UpdatePollValidate(question, entries) ==
  LET options == SanitizeOptions(entries) IN
  IF QuestionInvalid(question) THEN ErrQuestion
  ELSE IF Len(options) < MinOptions THEN ErrTwoOptions
  ELSE IF SetSize(options) /= Len(options) THEN ErrUnique
  ELSE Success

\* PollCreateForm.validateForm: the message shown, or Success for null.
\* (formOptions is cast to string[]; a File entry has no trim and the filter
\* keeps it only if it is truthy, so the form submits strings only.)
ValidateForm(question, strs) ==
  LET validOptions == SelectSeq(strs, LAMBDA s : s /= <<>> /\ Trim(s) /= <<>>)
      trimmed == [i \in DOMAIN validOptions |-> Trim(validOptions[i])] IN
  IF QuestionInvalid(question) THEN ErrQuestion
  ELSE IF Len(validOptions) < MinOptions THEN ErrTwoOptions
  ELSE IF SetSize(trimmed) /= Len(validOptions) THEN ErrUnique
  ELSE Success

(* ------------------------------ poll ids ------------------------------- *)
\* The text of an id argument: the canonical UUID of the n-th generated id
\* ("uuid"), some other non-blank text ("junk"), or nothing but white space
\* ("blank", the empty string when not padded); pad says that white space
\* surrounds it.
IdText(kind, n, pad) == [kind |-> kind, n |-> n, pad |-> pad]

Uuid(n) == IdText("uuid", n, FALSE)

\* An optionIndex argument: not a number, or the number floor + (frac ? 1/2 : 0).
Number(floor, frac) == [isNumber |-> TRUE, floor |-> floor, frac |-> frac]

NotANumber == [isNumber |-> FALSE, floor |-> 0, frac |-> FALSE]

\* typeof optionIndex !== 'number' || optionIndex < 0
OptionIndexInvalid(x) == ~x.isNumber \/ x.floor < 0

\* !poll.options || optionIndex >= poll.options.length
OptionIndexOutOfRange(x, options) == x.floor >= Len(options)

NoId == IdText("blank", 0, FALSE)

\* id.trim()
TrimId(t) == [t EXCEPT !.pad = FALSE]

\* !id || id.trim() === ''
IdMissing(t) == t.kind = "blank"

\* uuidRegex.test(sanitizedPollId)
UuidRegexTest(t) == t.kind = "uuid" /\ ~t.pad

(* ------------------------------- state --------------------------------- *)

Users == {"u1", "u2"}

\* user === null
NoUser == "anonymous"

\* request slots: each runs one server action at a time
Procs == {"r1", "r2"}

VARIABLES
  polls,       \* table polls: id -> [user_id, question, options, created_at]
  votes,       \* table votes: bag of [poll_id, user_id, option_index]; the
               \* generated id and created_at, which no query reads, are left out
  nextPollId,  \* the next id the store generates for a poll
  now,         \* the clock new Date() reads; it ticks when a poll is inserted
  faulty,      \* whether calls to the store and the identity service can fail
  accounts,    \* the identity service's accounts: [email, password, name]
  req,         \* per request slot: the running server action and its locals
  sessionStorage, \* the browser tab's sessionStorage: key -> token or null
  page,        \* the page the tab shows: its component state and the form
               \* data of the submission it is handling
  tokenLog     \* history: tokens generated so far, and per key the token
               \* checks that passed against the token now stored

vars ==
  <<polls, votes, nextPollId, now, faulty, accounts, req, sessionStorage, page, tokenLog>>

\* the browser side
client == <<sessionStorage, page, tokenLog>>

store == <<polls, votes, nextPollId, now, faulty, accounts>>

IdleReq ==
  [pc |-> "idle", op |-> "none", caller |-> NoUser, id |-> NoId,
   question |-> <<>>, entries |-> <<>>, optionIndex |-> Number(0, FALSE),
   user |-> NoUser, result |-> "none", removed |-> EmptyBag,
   email |-> <<>>, password |-> <<>>, name |-> <<>>, outcome |-> "none",
   voteCounts |-> [computed |-> FALSE, counts |-> <<>>]]

\* a value of Math.random().toString(36).substring(2, 15)
TokenValues == {"t1", "t2"}

\* sessionStorage.getItem of a key that is not set, formData.get of a field
\* that is not there
NoToken == "null"

StorageKeys == {"pollCsrfToken", "voteCsrfToken", "csrfToken"}

Forms == {"PollCreateForm", "PollDetailPage", "LoginPage"}

\* the sessionStorage key each page keeps its token under
StorageKey(f) ==
  CASE f = "PollCreateForm" -> "pollCsrfToken"
    [] f = "PollDetailPage" -> "voteCsrfToken"
    [] f = "LoginPage" -> "csrfToken"

\* a run of a page's submit handler that has not started: where it is, the
\* token it presented and the form data it sends
NoCall ==
  [pc |-> "idle", presented |-> NoToken, question |-> <<>>, options |-> <<>>,
   email |-> <<>>, password |-> <<>>]

\* no page with a form is shown; a page's component state is its csrfToken,
\* success (hasVoted on the poll page), error, loading (login page) and
\* isSubmitting (poll page); calls are the runs of its submit handler, the
\* run h calling its server action in slot h
NoPage ==
  [form |-> "none", csrfToken |-> NoToken, success |-> FALSE, error |-> "none",
   loading |-> FALSE, isSubmitting |-> FALSE, calls |-> [h \in Procs |-> NoCall]]

\* no token generated yet
NoTokenLog ==
  [issued |-> 0, passed |-> [k \in StorageKeys |-> 0], age |-> [k \in StorageKeys |-> 0]]

\* "a@b.c"
KnownEmail == <<97, 64, 98, 46, 99>>

\* "goodpass1"
KnownPassword == <<103, 111, 111, 100, 112, 97, 115, 115, 49>>

\* the account of a user who has registered
KnownAccount == [email |-> KnownEmail, password |-> KnownPassword, name |-> <<110>>]

\* empty tables, one registered account, no request running
InitStore ==
  /\ polls = <<>>
  /\ accounts = {KnownAccount}
  /\ votes = EmptyBag
  /\ nextPollId = 1
  /\ now = 0
  /\ req = [p \in Procs |-> IdleReq]
  /\ sessionStorage = [k \in StorageKeys |-> NoToken]
  /\ page = NoPage
  /\ tokenLog = NoTokenLog

\* the external services can fail at any call
Init == InitStore /\ faulty = TRUE

\* the external services answer every call
InitReliable == InitStore /\ faulty = FALSE

\* the error a call to an external service can come back with
Fails == IF faulty THEN BOOLEAN ELSE {FALSE}

\* a slot can take a new request when it runs none
Ready(p) == req[p].pc \in {"idle", "done"}

\* return { error: msg } / return { error: null, ... }
Return(p, msg) ==
  req' = [req EXCEPT ![p].pc = "done", ![p].result = msg]

Goto(p, label) == req' = [req EXCEPT ![p].pc = label]

\* .from("polls").select(...).eq("id", id).single(): the matching row's key, 0 if none
PollRow(t) ==
  IF t.kind = "uuid" /\ ~t.pad /\ t.n \in DOMAIN polls THEN t.n ELSE 0

(* ------------------------------ createPoll ----------------------------- *)

\* lines 7-34: read the form, validate
CreatePollCall(p, caller, question, entries) ==
  /\ Ready(p)
  /\ LET err == CreatePollValidate(question, entries)
         r == [IdleReq EXCEPT !.op = "createPoll", !.caller = caller,
                              !.question = question, !.entries = entries] IN
     req' = [req EXCEPT ![p] =
               IF err /= Success
               THEN [r EXCEPT !.pc = "done", !.result = err]
               ELSE [r EXCEPT !.pc = "create_user"]]
  /\ UNCHANGED store
  /\ UNCHANGED client

\* the check for a missing user left out
MutCreatePollGetUser(p) ==
  /\ req[p].pc = "create_user"
  /\ \E userError \in Fails :
       IF userError THEN Return(p, ErrAuthFailed)
       ELSE req' = [req EXCEPT ![p].pc = "create_insert", ![p].user = req[p].caller]
  /\ UNCHANGED store
  /\ UNCHANGED client

\* lines 36-50: supabase.auth.getUser()
CreatePollGetUser(p) ==
  /\ req[p].pc = "create_user"
  /\ \E userError \in Fails :
       IF userError THEN Return(p, ErrAuthFailed)
       ELSE IF req[p].caller = NoUser THEN Return(p, ErrLoginCreate)
       ELSE req' = [req EXCEPT ![p].pc = "create_insert", ![p].user = req[p].caller]
  /\ UNCHANGED store
  /\ UNCHANGED client

\* the question stored as it was submitted
MutNewPoll(r) ==
  [user_id |-> r.user,
   question |-> r.question,
   options |-> TrimAll(SanitizeOptions(r.entries)),
   created_at |-> now]

\* the row createPoll inserts (lines 57-62)
NewPoll(r) ==
  [user_id |-> r.user,
   question |-> Trim(r.question),
   options |-> TrimAll(SanitizeOptions(r.entries)),
   created_at |-> now]

\* lines 55-71: insert into polls
CreatePollInsert(p) ==
  /\ req[p].pc = "create_insert"
  /\ \E error \in Fails :
       IF error
       THEN /\ Return(p, ErrCreateFailed)
            /\ UNCHANGED store
       ELSE /\ nextPollId <= MaxPolls
            /\ polls' = (nextPollId :> NewPoll(req[p])) @@ polls
            /\ nextPollId' = nextPollId + 1
            /\ now' = now + 1
            /\ req' = [req EXCEPT ![p].pc = "done", ![p].result = Success,
                                  ![p].id = Uuid(nextPollId)]
            /\ UNCHANGED <<votes, faulty, accounts>>
  /\ UNCHANGED client

(* ------------------------------ updatePoll ----------------------------- *)

\* lines 297-323: check the id, read the form, validate
UpdatePollCall(p, caller, id, question, entries) ==
  /\ Ready(p)
  /\ LET err == IF IdMissing(id) THEN ErrInvalidId
                ELSE UpdatePollValidate(question, entries)
         r == [IdleReq EXCEPT !.op = "updatePoll", !.caller = caller, !.id = id,
                              !.question = question, !.entries = entries] IN
     req' = [req EXCEPT ![p] =
               IF err /= Success
               THEN [r EXCEPT !.pc = "done", !.result = err]
               ELSE [r EXCEPT !.pc = "update_user"]]
  /\ UNCHANGED store
  /\ UNCHANGED client

\* lines 327-341: supabase.auth.getUser()
UpdatePollGetUser(p) ==
  /\ req[p].pc = "update_user"
  /\ \E userError \in Fails :
       IF userError THEN Return(p, ErrAuthFailed)
       ELSE IF req[p].caller = NoUser THEN Return(p, ErrLoginUpdate)
       ELSE req' = [req EXCEPT ![p].pc = "update_read", ![p].user = req[p].caller]
  /\ UNCHANGED store
  /\ UNCHANGED client

\* lines 343-357: select user_id of the poll, check ownership
UpdatePollRead(p) ==
  /\ req[p].pc = "update_read"
  /\ \E pollError \in Fails :
       LET n == PollRow(req[p].id) IN
       IF pollError \/ n = 0 THEN Return(p, ErrPollNotFound)
       ELSE IF polls[n].user_id /= req[p].user THEN Return(p, ErrNoPermissionUpdate)
       ELSE Goto(p, "update_write")
  /\ UNCHANGED store
  /\ UNCHANGED client

\* the filters on id and user_id left out
MutUpdateMatches(r) == DOMAIN polls

\* the rows .update(...).eq("id", pollId).eq("user_id", user.id) matches
UpdateMatches(r) ==
  {n \in DOMAIN polls : PollRow(r.id) = n /\ polls[n].user_id = r.user}

\* lines 359-375: update question and options
UpdatePollWrite(p) ==
  /\ req[p].pc = "update_write"
  /\ \E error \in Fails :
       IF error
       THEN /\ Return(p, ErrUpdateFailed)
            /\ UNCHANGED polls
       ELSE /\ polls' = [n \in DOMAIN polls |->
                          IF n \in UpdateMatches(req[p])
                          THEN [polls[n] EXCEPT
                                  !.question = Trim(req[p].question),
                                  !.options = TrimAll(SanitizeOptions(req[p].entries))]
                          ELSE polls[n]]
            /\ Return(p, Success)
  /\ UNCHANGED <<votes, nextPollId, now, faulty, accounts>>
  /\ UNCHANGED client

(* ------------------------------ submitVote ----------------------------- *)

\* lines 110-127: input validation
SubmitVoteValidate(pollId, optionIndex) ==
  IF IdMissing(pollId) THEN ErrInvalidId
  ELSE IF OptionIndexInvalid(optionIndex) THEN ErrInvalidOption
  ELSE IF ~UuidRegexTest(TrimId(pollId)) THEN ErrInvalidIdFormat
  ELSE Success

SubmitVoteCall(p, caller, pollId, optionIndex) ==
  /\ Ready(p)
  /\ LET err == SubmitVoteValidate(pollId, optionIndex)
         r == [IdleReq EXCEPT !.op = "submitVote", !.caller = caller,
                              !.id = TrimId(pollId), !.optionIndex = optionIndex] IN
     req' = [req EXCEPT ![p] =
               IF err /= Success
               THEN [r EXCEPT !.pc = "done", !.result = err, !.id = pollId]
               ELSE [r EXCEPT !.pc = "vote_poll"]]
  /\ UNCHANGED store
  /\ UNCHANGED client

\* lines 132-146: the poll exists and has the option
SubmitVoteReadPoll(p) ==
  /\ req[p].pc = "vote_poll"
  /\ \E pollError \in Fails :
       LET n == PollRow(req[p].id) IN
       IF pollError \/ n = 0 THEN Return(p, ErrPollNotFound)
       ELSE IF OptionIndexOutOfRange(req[p].optionIndex, polls[n].options)
            THEN Return(p, ErrInvalidOption)
       ELSE Goto(p, "vote_user")
  /\ UNCHANGED store
  /\ UNCHANGED client

\* the existing-vote check made for every caller
MutSubmitVoteGetUser(p) ==
  /\ req[p].pc = "vote_user"
  /\ \E userError \in Fails :
       IF userError THEN Return(p, ErrAuthFailed)
       ELSE req' = [req EXCEPT ![p].user = req[p].caller, ![p].pc = "vote_check"]
  /\ UNCHANGED store
  /\ UNCHANGED client

\* lines 148-160: supabase.auth.getUser(); only a signed-in voter is checked
SubmitVoteGetUser(p) ==
  /\ req[p].pc = "vote_user"
  /\ \E userError \in Fails :
       IF userError THEN Return(p, ErrAuthFailed)
       ELSE req' = [req EXCEPT ![p].user = req[p].caller,
                               ![p].pc = IF req[p].caller /= NoUser
                                         THEN "vote_check" ELSE "vote_insert"]
  /\ UNCHANGED store
  /\ UNCHANGED client

\* the rows .eq("poll_id", id).eq("user_id", user.id) matches
VotesOf(n, u) ==
  [v \in {w \in BagToSet(votes) : w.poll_id = n /\ w.user_id = u} |-> votes[v]]

\* .maybeSingle() gives data only when the query succeeds with exactly one
\* row; with no row, with several rows or on an error data is null, and the
\* code reads data alone.
ExistingVote(r, lookupError) ==
  ~lookupError /\ BagCardinality(VotesOf(r.id.n, r.user)) = 1

\* lines 159-171: has this user already voted
SubmitVoteCheck(p) ==
  /\ req[p].pc = "vote_check"
  /\ \E lookupError \in Fails :
       IF ExistingVote(req[p], lookupError) THEN Return(p, ErrAlreadyVoted)
       ELSE Goto(p, "vote_insert")
  /\ UNCHANGED store
  /\ UNCHANGED client

\* the row submitVote inserts (lines 175-182)
NewVote(r) ==
  [poll_id |-> r.id.n,
   user_id |-> r.user,
   option_index |-> r.optionIndex]

\* the row written also when the insert reports an error
MutSubmitVoteInsert(p) ==
  /\ req[p].pc = "vote_insert"
  /\ BagCardinality(votes) < MaxVotes
  /\ votes' = votes (+) SetToBag({NewVote(req[p])})
  /\ \E error \in Fails :
       IF error THEN Return(p, ErrVoteFailed) ELSE Goto(p, "vote_results")
  /\ UNCHANGED <<polls, nextPollId, now, faulty, accounts>>
  /\ UNCHANGED client

\* lines 173-188: insert into votes
SubmitVoteInsert(p) ==
  /\ req[p].pc = "vote_insert"
  /\ \E error \in Fails :
       IF error
       THEN /\ Return(p, ErrVoteFailed)
            /\ UNCHANGED store
       ELSE /\ BagCardinality(votes) < MaxVotes
            /\ votes' = votes (+) SetToBag({NewVote(req[p])})
            /\ Goto(p, "vote_results")
            /\ UNCHANGED <<polls, nextPollId, now, faulty, accounts>>
  /\ UNCHANGED client

\* the rows of votes that .eq("poll_id", id) matches
VotesOfPoll(n) ==
  [v \in {w \in BagToSet(votes) : w.poll_id = n} |-> votes[v]]

\* lines 200-207: voteCounts[idx] = (voteCounts[idx] || 0) + 1 for every
\* vote of the results: a count for each option index that has a vote
VoteCounts(results) ==
  LET indexes == {v.option_index : v \in BagToSet(results)} IN
  [idx \in indexes |->
     BagCardinality([v \in {w \in BagToSet(results) : w.option_index = idx}
                       |-> results[v]])]

\* lines 190-211: read the poll's votes and count them per option; a failure
\* to read them is only logged
SubmitVoteResults(p) ==
  /\ req[p].pc = "vote_results"
  /\ \E resultsError \in Fails :
       req' = [req EXCEPT
                 ![p].pc = "done",
                 ![p].result = Success,
                 ![p].voteCounts =
                    IF resultsError THEN @
                    ELSE [computed |-> TRUE,
                          counts |-> VoteCounts(VotesOfPoll(req[p].id.n))]]
  /\ UNCHANGED store
  /\ UNCHANGED client

(* ------------------------------ deletePoll ----------------------------- *)

\* lines 219-231: input validation
DeletePollValidate(id) ==
  IF IdMissing(id) THEN ErrInvalidId
  ELSE IF ~UuidRegexTest(TrimId(id)) THEN ErrInvalidIdFormat
  ELSE Success

DeletePollCall(p, caller, id) ==
  /\ Ready(p)
  /\ LET err == DeletePollValidate(id)
         r == [IdleReq EXCEPT !.op = "deletePoll", !.caller = caller,
                              !.id = TrimId(id)] IN
     req' = [req EXCEPT ![p] =
               IF err /= Success
               THEN [r EXCEPT !.pc = "done", !.result = err, !.id = id]
               ELSE [r EXCEPT !.pc = "delete_user"]]
  /\ UNCHANGED store
  /\ UNCHANGED client

\* lines 236-244: supabase.auth.getUser()
DeletePollGetUser(p) ==
  /\ req[p].pc = "delete_user"
  /\ \E userError \in Fails :
       IF userError \/ req[p].caller = NoUser THEN Return(p, ErrLoginDelete)
       ELSE req' = [req EXCEPT ![p].pc = "delete_read", ![p].user = req[p].caller]
  /\ UNCHANGED store
  /\ UNCHANGED client

\* the ownership check left out
MutNotOwner(poll, user) == FALSE

\* poll.user_id !== user.id
NotOwner(poll, user) == poll.user_id /= user

\* lines 246-262: select user_id of the poll, check ownership
DeletePollRead(p) ==
  /\ req[p].pc = "delete_read"
  /\ \E pollError \in Fails :
       LET n == PollRow(req[p].id) IN
       IF pollError \/ n = 0 THEN Return(p, ErrPollNotFound)
       ELSE IF NotOwner(polls[n], req[p].user) THEN Return(p, ErrNoPermissionDelete)
       ELSE Goto(p, "delete_votes")
  /\ UNCHANGED store
  /\ UNCHANGED client

\* the failure of the votes' deletion logged and not returned
MutDeletePollVotes(p) ==
  /\ req[p].pc = "delete_votes"
  /\ \E votesDeleteError \in Fails :
       IF votesDeleteError
       THEN /\ Goto(p, "delete_poll")
            /\ UNCHANGED votes
       ELSE LET gone == VotesOfPoll(req[p].id.n) IN
            /\ votes' = votes (-) gone
            /\ req' = [req EXCEPT ![p].pc = "delete_poll", ![p].removed = gone]
  /\ UNCHANGED <<polls, nextPollId, now, faulty, accounts>>
  /\ UNCHANGED client

\* lines 264-273: delete the poll's votes first
DeletePollVotes(p) ==
  /\ req[p].pc = "delete_votes"
  /\ \E votesDeleteError \in Fails :
       IF votesDeleteError
       THEN /\ Return(p, ErrDeleteVotesFailed)
            /\ UNCHANGED votes
       ELSE LET gone == VotesOfPoll(req[p].id.n) IN
            /\ votes' = votes (-) gone
            /\ req' = [req EXCEPT ![p].pc = "delete_poll", ![p].removed = gone]
  /\ UNCHANGED <<polls, nextPollId, now, faulty, accounts>>
  /\ UNCHANGED client

\* the rows .delete().eq("id", id).eq("user_id", user.id) matches
DeleteMatches(r) ==
  {n \in DOMAIN polls : PollRow(r.id) = n /\ polls[n].user_id = r.user}

\* lines 275-289: delete the poll
DeletePollDelete(p) ==
  /\ req[p].pc = "delete_poll"
  /\ \E error \in Fails :
       IF error
       THEN /\ Return(p, ErrDeleteFailed)
            /\ UNCHANGED polls
       ELSE /\ polls' = [n \in DOMAIN polls \ DeleteMatches(req[p]) |-> polls[n]]
            /\ Return(p, Success)
  /\ UNCHANGED <<votes, nextPollId, now, faulty, accounts>>
  /\ UNCHANGED client

(* -------------------------------- login -------------------------------- *)
\* The session the identity service keeps is outside this model: what
\* supabase.auth.getUser() answers is each request's input caller.

ErrLoginRequired == "Email and password are required"
ErrInvalidCredentials == "Invalid login credentials"
ErrUnexpected == "An unexpected error occurred"

\* auth-actions lines 6-14: validate the input
LoginCall(p, email, password) ==
  /\ Ready(p)
  /\ LET r == [IdleReq EXCEPT !.op = "login", !.email = email,
                              !.password = password] IN
     req' = [req EXCEPT ![p] =
               IF email = <<>> \/ password = <<>>
               THEN [r EXCEPT !.pc = "done", !.result = ErrLoginRequired]
               ELSE [r EXCEPT !.pc = "login_signin"]]
  /\ UNCHANGED store
  /\ UNCHANGED client

\* what the identity service answers to signInWithPassword: it knows no
\* account with the email, the password is not the account's, or it signs
\* the user in; it can also fail for a reason of its own
SignInOutcome(email, password, serviceError) ==
  LET known == {a \in accounts : a.email = email} IN
  IF serviceError THEN "service_error"
  ELSE IF known = {} THEN "unknown_email"
  ELSE IF \A a \in known : a.password /= password THEN "wrong_password"
  ELSE "ok"

\* the error of the identity service passed on as it is
MutLoginSignIn(p) ==
  /\ req[p].pc = "login_signin"
  /\ \E thrown \in Fails, serviceError \in Fails :
       LET outcome == SignInOutcome(ToLowerCase(Trim(req[p].email)),
                                    req[p].password, serviceError) IN
       req' = [req EXCEPT
                 ![p].pc = "done",
                 ![p].outcome = IF thrown THEN "thrown" ELSE outcome,
                 ![p].result = IF thrown THEN ErrUnexpected
                               ELSE IF outcome /= "ok" THEN outcome
                               ELSE Success]
  /\ UNCHANGED store
  /\ UNCHANGED client

\* auth-actions lines 16-32: supabase.auth.signInWithPassword with the
\* trimmed, lower-cased email; every error of the service gets one message
LoginSignIn(p) ==
  /\ req[p].pc = "login_signin"
  /\ \E thrown \in Fails, serviceError \in Fails :
       LET outcome == SignInOutcome(ToLowerCase(Trim(req[p].email)),
                                    req[p].password, serviceError) IN
       req' = [req EXCEPT
                 ![p].pc = "done",
                 ![p].outcome = IF thrown THEN "thrown" ELSE outcome,
                 ![p].result = IF thrown THEN ErrUnexpected
                               ELSE IF outcome /= "ok" THEN ErrInvalidCredentials
                               ELSE Success]
  /\ UNCHANGED store
  /\ UNCHANGED client

(* ------------------------------- register ------------------------------ *)

ErrAllFields == "All fields are required"
ErrPasswordLength == "Password must be at least 8 characters long"
ErrStrongerPassword == "Please use a stronger password"
ErrAlreadyRegistered == "This email is already registered"
ErrRegistrationFailed == "Registration failed. Please try again."

MinPasswordLength == 8

\* 'password', '12345678', 'qwerty123'
CommonPasswords ==
  {<<112, 97, 115, 115, 119, 111, 114, 100>>,
   <<49, 50, 51, 52, 53, 54, 55, 56>>,
   <<113, 119, 101, 114, 116, 121, 49, 50, 51>>}

\* the password compared with the list as it is, not lower-cased
MutRegisterValidate(email, password, name) ==
  IF email = <<>> \/ password = <<>> \/ name = <<>> THEN ErrAllFields
  ELSE IF Len(password) < MinPasswordLength THEN ErrPasswordLength
  ELSE IF password \in CommonPasswords THEN ErrStrongerPassword
  ELSE Success

\* auth-actions lines 36-50: the checks before the call of the identity service
RegisterValidate(email, password, name) ==
  IF email = <<>> \/ password = <<>> \/ name = <<>> THEN ErrAllFields
  ELSE IF Len(password) < MinPasswordLength THEN ErrPasswordLength
  ELSE IF ToLowerCase(password) \in CommonPasswords THEN ErrStrongerPassword
  ELSE Success

\* auth-actions lines 35-52: register up to the call of the identity service
RegisterCall(p, email, password, name) ==
  /\ Ready(p)
  /\ LET err == RegisterValidate(email, password, name)
         r == [IdleReq EXCEPT !.op = "register", !.email = email,
                              !.password = password, !.name = name] IN
     req' = [req EXCEPT ![p] =
               IF err /= Success
               THEN [r EXCEPT !.pc = "done", !.result = err]
               ELSE [r EXCEPT !.pc = "register_signup"]]
  /\ UNCHANGED store
  /\ UNCHANGED client

\* auth-actions lines 54-78: supabase.auth.signUp with the trimmed,
\* lower-cased email and the trimmed name; the service refuses an email it
\* has an account for, can fail for a reason of its own, or creates the account
RegisterSignUp(p) ==
  /\ req[p].pc = "register_signup"
  /\ LET email == ToLowerCase(Trim(req[p].email)) IN
     \E thrown \in Fails, serviceError \in Fails :
       IF thrown
       THEN /\ Return(p, ErrUnexpected)
            /\ UNCHANGED accounts
       ELSE IF \E a \in accounts : a.email = email
       THEN /\ Return(p, ErrAlreadyRegistered)
            /\ UNCHANGED accounts
       ELSE IF serviceError
       THEN /\ Return(p, ErrRegistrationFailed)
            /\ UNCHANGED accounts
       ELSE /\ accounts' = accounts \cup
                 {[email |-> email, password |-> req[p].password,
                   name |-> Trim(req[p].name)]}
            /\ Return(p, Success)
  /\ UNCHANGED <<polls, votes, nextPollId, now, faulty>>
  /\ UNCHANGED client

(* ------------------------- pages and their tokens ---------------------- *)

ErrSecurity == "Security validation failed. Please refresh the page and try again."
ErrSelectOption == "Please select an option"
ErrEmail == "Please enter a valid email address"
ErrPassword == "Password is required"
ErrClientUnexpected == "An unexpected error occurred. Please try again."
ErrVoteUnexpected == "Failed to submit vote. Please try again."

\* sessionStorage.setItem(key, token) with a token just generated
Issue(key, token) ==
  /\ sessionStorage' = [sessionStorage EXCEPT ![key] = token]
  /\ tokenLog' = [issued |-> tokenLog.issued + 1,
                  passed |-> [tokenLog.passed EXCEPT ![key] = 0],
                  age |-> [tokenLog.age EXCEPT ![key] = 0]]

\* the token check passed against the token stored under key
NotePassed(key) ==
  tokenLog' = [tokenLog EXCEPT !.passed[key] =
                 IF @ < MaxPasses THEN @ + 1 ELSE @]

\* time passes: every stored token gets older; nothing in the pages reads a
\* clock
TimePasses ==
  /\ \E k \in StorageKeys : sessionStorage[k] /= NoToken /\ tokenLog.age[k] < MaxAge
  /\ tokenLog' = [tokenLog EXCEPT !.age =
                    [k \in StorageKeys |->
                       IF sessionStorage[k] /= NoToken /\ tokenLog.age[k] < MaxAge
                       THEN tokenLog.age[k] + 1 ELSE tokenLog.age[k]]]
  /\ UNCHANGED <<store, req, sessionStorage, page>>

\* the page mounts; its effect generates a token, keeps it in the component
\* state and stores it (PollCreateForm 17-23, PollDetailPage 193-199,
\* login page 17-23)
Mount(f) ==
  /\ page.form = "none"
  /\ tokenLog.issued < MaxIssued
  /\ \E token \in TokenValues :
       /\ Issue(StorageKey(f), token)
       /\ page' = [NoPage EXCEPT !.form = f, !.csrfToken = token]
  /\ UNCHANGED <<store, req>>

\* no run of the page's submit handler is waiting for its server action
NoCalls == \A h \in Procs : page.calls[h].pc = "idle"

\* the tab leaves the page (a link, or the redirect after a success)
Leave ==
  /\ page.form /= "none"
  /\ NoCalls
  /\ page' = NoPage
  /\ UNCHANGED <<store, req, sessionStorage, tokenLog>>

\* the form's strings as the FormData entries the server action reads
Entries(strs) == [i \in DOMAIN strs |-> StringEntry(strs[i])]

\* the run has returned; what stays of it is the token it presented
Ended(call) == [NoCall EXCEPT !.presented = call.presented]

\* a run of the submit handler can start
CanCall == \E h \in Procs : page.calls[h].pc = "idle" /\ req[h].pc = "idle"

\* the run that starts
FreeCall == CHOOSE h \in Procs : page.calls[h].pc = "idle" /\ req[h].pc = "idle"

\* the token check left out
MutPollCreateSubmit(formCsrfToken, question, strs) ==
  /\ page.form = "PollCreateForm" /\ ~page.success
  /\ CanCall
  /\ LET validationError == ValidateForm(question, strs)
         call == [NoCall EXCEPT !.presented = formCsrfToken, !.question = question,
                                !.options = strs] IN
     IF validationError /= Success
     THEN /\ page' = [page EXCEPT !.error = validationError, !.calls[FreeCall] = Ended(call)]
          /\ UNCHANGED tokenLog
     ELSE /\ page' = [page EXCEPT !.error = "none",
                                  !.calls[FreeCall] = [call EXCEPT !.pc = "calling"]]
          /\ UNCHANGED tokenLog
  /\ UNCHANGED <<store, req, sessionStorage>>

\* PollCreateForm lines 62-83: the form's action up to the call of
\* createPoll; the submit button is disabled by !csrfToken || success only
\* (lines 149-152), so the action can start while an earlier run is waiting
PollCreateSubmit(formCsrfToken, question, strs) ==
  /\ page.form = "PollCreateForm" /\ ~page.success
  /\ CanCall
  /\ LET storedToken == sessionStorage["pollCsrfToken"]
         validationError == ValidateForm(question, strs)
         call == [NoCall EXCEPT !.presented = formCsrfToken, !.question = question,
                                !.options = strs] IN
     IF formCsrfToken /= storedToken
     THEN /\ page' = [page EXCEPT !.error = ErrSecurity, !.calls[FreeCall] = Ended(call)]
          /\ UNCHANGED tokenLog
     ELSE IF validationError /= Success
     THEN /\ page' = [page EXCEPT !.error = validationError, !.calls[FreeCall] = Ended(call)]
          /\ NotePassed("pollCsrfToken")
     ELSE /\ page' = [page EXCEPT !.error = "none",
                                  !.calls[FreeCall] = [call EXCEPT !.pc = "calling"]]
          /\ NotePassed("pollCsrfToken")
  /\ UNCHANGED <<store, req, sessionStorage>>

\* line 83: createPoll(formData) of the run h reaches the server
PollCreateInvoke(h, caller) ==
  /\ page.form = "PollCreateForm" /\ page.calls[h].pc = "calling"
  /\ req[h].pc = "idle"
  /\ CreatePollCall(h, caller, page.calls[h].question, Entries(page.calls[h].options))

\* PollCreateForm lines 84-101: the result of createPoll in the run h; on
\* success the stored token is removed and a new one is stored
PollCreateResult(h) ==
  /\ page.form = "PollCreateForm" /\ page.calls[h].pc = "calling"
  /\ req[h].pc = "done"
  /\ \E thrown \in Fails :
       IF thrown
       THEN /\ page' = [page EXCEPT !.calls[h] = Ended(@), !.error = ErrClientUnexpected]
            /\ UNCHANGED <<sessionStorage, tokenLog>>
       ELSE IF req[h].result /= Success
       THEN /\ page' = [page EXCEPT !.calls[h] = Ended(@), !.error = req[h].result]
            /\ UNCHANGED <<sessionStorage, tokenLog>>
       ELSE /\ tokenLog.issued < MaxIssued
            /\ \E newToken \in TokenValues : Issue("pollCsrfToken", newToken)
            /\ page' = [page EXCEPT !.calls[h] = Ended(@), !.success = TRUE]
  /\ req' = [req EXCEPT ![h] = IdleReq]
  /\ UNCHANGED store

\* the option the voter has clicked: the option's id, a string, or null
NoSelection == "null"

Selections == {NoSelection, "1", "2"}

\* PollDetailPage lines 205-223: handleVote up to the call of submitVote;
\* the token presented is the component's own csrfToken; the button is
\* disabled while isSubmitting (lines 295-298)
HandleVote(selectedOption) ==
  /\ page.form = "PollDetailPage" /\ ~page.success /\ ~page.isSubmitting
  /\ CanCall
  /\ LET storedToken == sessionStorage["voteCsrfToken"]
         call == [NoCall EXCEPT !.presented = page.csrfToken] IN
     IF selectedOption = NoSelection
     THEN /\ page' = [page EXCEPT !.error = ErrSelectOption]
          /\ UNCHANGED tokenLog
     ELSE IF page.csrfToken /= storedToken
     THEN /\ page' = [page EXCEPT !.error = ErrSecurity, !.calls[FreeCall] = Ended(call)]
          /\ UNCHANGED tokenLog
     ELSE /\ page' = [page EXCEPT !.error = "none", !.isSubmitting = TRUE,
                                  !.calls[FreeCall] = [call EXCEPT !.pc = "calling"]]
          /\ NotePassed("voteCsrfToken")
  /\ UNCHANGED <<store, req, sessionStorage>>

\* line 223: submitVote(params.id, selectedOption) of the run h reaches the
\* server; the selected option is a string, which is not a number
VoteInvoke(h, caller, id) ==
  /\ page.form = "PollDetailPage" /\ page.calls[h].pc = "calling"
  /\ req[h].pc = "idle"
  /\ SubmitVoteCall(h, caller, id, NotANumber)

\* PollDetailPage lines 225-241: the result of submitVote in the run h
VoteResult(h) ==
  /\ page.form = "PollDetailPage" /\ page.calls[h].pc = "calling"
  /\ req[h].pc = "done"
  /\ \E thrown \in Fails :
       IF thrown
       THEN /\ page' = [page EXCEPT !.calls[h] = Ended(@), !.isSubmitting = FALSE,
                                    !.error = ErrVoteUnexpected]
            /\ UNCHANGED <<sessionStorage, tokenLog>>
       ELSE IF req[h].result /= Success
       THEN /\ page' = [page EXCEPT !.calls[h] = Ended(@), !.isSubmitting = FALSE,
                                    !.error = req[h].result]
            /\ UNCHANGED <<sessionStorage, tokenLog>>
       ELSE /\ tokenLog.issued < MaxIssued
            /\ \E newToken \in TokenValues : Issue("voteCsrfToken", newToken)
            /\ page' = [page EXCEPT !.calls[h] = Ended(@), !.isSubmitting = FALSE,
                                    !.success = TRUE]
  /\ req' = [req EXCEPT ![h] = IdleReq]
  /\ UNCHANGED store

\* [^\s@]+
RECURSIVE NoSpaceNoAt(_)
NoSpaceNoAt(s) ==
  \/ s = <<>>
  \/ Head(s) \notin WhiteSpace \cup {64} /\ NoSpaceNoAt(Tail(s))

\* /^[^\s@]+@[^\s@]+\.[^\s@]+$/.test(email)
EmailRegexTest(email) ==
  \E i, j \in DOMAIN email :
    /\ 1 < i /\ i + 1 < j /\ j < Len(email)
    /\ email[i] = 64 /\ email[j] = 46
    /\ NoSpaceNoAt(SubSeq(email, 1, i - 1))
    /\ NoSpaceNoAt(SubSeq(email, i + 1, j - 1))
    /\ NoSpaceNoAt(SubSeq(email, j + 1, Len(email)))

\* login page lines 25-60: handleSubmit up to the call of login; the button
\* is disabled while loading (lines 121-125), and loading is set until the
\* handler has reported an error
LoginSubmit(email, password, formCsrfToken) ==
  /\ page.form = "LoginPage" /\ ~page.success /\ ~page.loading
  /\ CanCall
  /\ LET storedToken == sessionStorage["csrfToken"]
         call == [NoCall EXCEPT !.presented = formCsrfToken, !.email = email,
                                !.password = password] IN
     IF ~EmailRegexTest(email)
     THEN /\ page' = [page EXCEPT !.error = ErrEmail]
          /\ UNCHANGED tokenLog
     ELSE IF password = <<>> \/ Trim(password) = <<>>
     THEN /\ page' = [page EXCEPT !.error = ErrPassword]
          /\ UNCHANGED tokenLog
     ELSE IF formCsrfToken /= storedToken
     THEN /\ page' = [page EXCEPT !.error = ErrSecurity, !.calls[FreeCall] = Ended(call)]
          /\ UNCHANGED tokenLog
     ELSE /\ page' = [page EXCEPT !.error = "none", !.loading = TRUE,
                                  !.calls[FreeCall] = [call EXCEPT !.pc = "calling"]]
          /\ NotePassed("csrfToken")
  /\ UNCHANGED <<store, req, sessionStorage>>

\* line 60: login({ email, password }) of the run h reaches the server
LoginInvoke(h) ==
  /\ page.form = "LoginPage" /\ page.calls[h].pc = "calling"
  /\ req[h].pc = "idle"
  /\ LoginCall(h, page.calls[h].email, page.calls[h].password)

\* login page lines 62-79: the result of login in the run h; on success the
\* stored token is removed and a new one is stored
LoginResult(h) ==
  /\ page.form = "LoginPage" /\ page.calls[h].pc = "calling"
  /\ req[h].pc = "done"
  /\ \E thrown \in Fails :
       IF thrown
       THEN /\ page' = [page EXCEPT !.calls[h] = Ended(@), !.loading = FALSE,
                                    !.error = ErrClientUnexpected]
            /\ UNCHANGED <<sessionStorage, tokenLog>>
       ELSE IF req[h].result /= Success
       THEN /\ page' = [page EXCEPT !.calls[h] = Ended(@), !.loading = FALSE,
                                    !.error = req[h].result]
            /\ UNCHANGED <<sessionStorage, tokenLog>>
       ELSE /\ tokenLog.issued < MaxIssued
            /\ \E newToken \in TokenValues : Issue("csrfToken", newToken)
            /\ page' = [page EXCEPT !.calls[h] = Ended(@), !.success = TRUE]
  /\ req' = [req EXCEPT ![h] = IdleReq]
  /\ UNCHANGED store

(* ------------------------------ getPollById ---------------------------- *)

\* error.message of the store
ErrStoreMessage == "error.message"

\* lines 97-107: select the poll with .single(); the id goes to the store as
\* given
GetPollById(p, id) ==
  /\ Ready(p)
  /\ \E error \in Fails :
       req' = [req EXCEPT ![p] =
                 [IdleReq EXCEPT !.op = "getPollById", !.id = id, !.pc = "done",
                                 !.result = IF error \/ PollRow(id) = 0
                                            THEN ErrStoreMessage ELSE Success]]
  /\ UNCHANGED store
  /\ UNCHANGED client

(* ------------------------------- inputs -------------------------------- *)

Callers == Users \cup {NoUser}

\* the i-th option text: one letter
Opt(i) == <<96 + i>>

\* a text with white space around it
Pad(s) == <<32>> \o s \o <<9>>

\* n entries with pairwise distinct texts
Distinct(n) == [i \in 1..n |-> StringEntry(Opt(i))]

\* the same, each text with white space around it
Padded(n) == [i \in 1..n |-> StringEntry(Pad(Opt(i)))]

\* n distinct texts, then an empty and a white-space-only entry
WithBlanks(n) == Distinct(n) \o <<StringEntry(<<>>), StringEntry(<<32, 32>>)>>

\* n distinct texts, then the first text again with white space around it
WithRepeat(n) == Distinct(n) \o <<StringEntry(Pad(Opt(1)))>>

\* n distinct texts, then a File
WithFile(n) == Distinct(n) \o <<FileEntry>>

QuestionText == <<81, 63>>

OtherQuestionText == <<32, 82, 63, 32>>

\* inputs of the interleaved requests: they aim at the first poll
ConcPollIds == {Uuid(1)}

ConcEntries == {Distinct(2)}

ConcIndexes == {Number(0, FALSE)}

\* inputs of the requests run one after the other: the first poll's id, bare
\* and with white space around it, a second id, and a text that is no UUID
SeqPollIds ==
  {Uuid(1), Uuid(2), IdText("uuid", 1, TRUE), IdText("junk", 0, FALSE)}

SeqEntries == {Distinct(2), Distinct(3)}

SeqIndexes == {Number(-1, FALSE), Number(0, FALSE), Number(2, FALSE), NotANumber}

\* inputs of the validation runs: every count of options up to
\* MaxOptions + ExtraOptions, and around the limits the padded, blank,
\* repeated and File variants
Counts == 0..(MaxOptions + ExtraOptions)

EdgeCounts == {0, 1, 2, MaxOptions, MaxOptions + 1}

ValEntries ==
  {Distinct(n) : n \in Counts}
    \cup {Padded(n) : n \in EdgeCounts}
    \cup {WithBlanks(n) : n \in EdgeCounts}
    \cup {WithRepeat(n) : n \in EdgeCounts \ {0}}
    \cup {WithFile(n) : n \in EdgeCounts}

ValQuestions == {<<>>, <<32, 9>>, QuestionText, Pad(QuestionText)}

(* ---------------------------- specifications --------------------------- *)

\* one step of the server action running in slot p
Step(p) ==
  \/ CreatePollGetUser(p)
  \/ CreatePollInsert(p)
  \/ UpdatePollGetUser(p)
  \/ UpdatePollRead(p)
  \/ UpdatePollWrite(p)
  \/ SubmitVoteReadPoll(p)
  \/ SubmitVoteGetUser(p)
  \/ SubmitVoteCheck(p)
  \/ SubmitVoteInsert(p)
  \/ SubmitVoteResults(p)
  \/ DeletePollGetUser(p)
  \/ DeletePollRead(p)
  \/ DeletePollVotes(p)
  \/ DeletePollDelete(p)

\* requests of signed-in users arrive in any slot at any time and interleave
\* at every await
Next ==
  \E p \in Procs :
    \/ \E c \in Users, e \in ConcEntries : CreatePollCall(p, c, QuestionText, e)
    \/ \E c \in Users, id \in ConcPollIds, e \in ConcEntries :
         UpdatePollCall(p, c, id, OtherQuestionText, e)
    \/ \E c \in Users, id \in ConcPollIds, x \in ConcIndexes :
         SubmitVoteCall(p, c, id, x)
    \/ \E c \in Users, id \in ConcPollIds : DeletePollCall(p, c, id)
    \/ Step(p)

Spec == Init /\ [][Next]_vars

\* sequential execution: one slot, each request runs to its return before
\* the next one starts
SeqSlot == "r1"

NextSeq ==
  \/ \E c \in Callers, e \in SeqEntries : CreatePollCall(SeqSlot, c, QuestionText, e)
  \/ \E c \in Callers, id \in SeqPollIds, e \in SeqEntries :
       UpdatePollCall(SeqSlot, c, id, OtherQuestionText, e)
  \/ \E c \in Callers, id \in SeqPollIds, x \in SeqIndexes :
       SubmitVoteCall(SeqSlot, c, id, x)
  \/ \E c \in Callers, id \in SeqPollIds : DeletePollCall(SeqSlot, c, id)
  \/ Step(SeqSlot)

SpecSeq == Init /\ [][NextSeq]_vars

\* interleaved requests against services that never fail
SpecReliable == InitReliable /\ [][Next]_vars

\* sequential requests against services that never fail
SpecSeqReliable == InitReliable /\ [][NextSeq]_vars

\* validation runs: one signed-in user creates the first poll and updates it,
\* sequentially, with every input of ValQuestions and ValEntries
NextVal ==
  \/ \E q \in ValQuestions, e \in ValEntries :
       nextPollId = 1 /\ CreatePollCall(SeqSlot, "u1", q, e)
  \/ \E q \in ValQuestions, e \in ValEntries :
       UpdatePollCall(SeqSlot, "u1", Uuid(1), q, e)
  \/ CreatePollGetUser(SeqSlot)
  \/ CreatePollInsert(SeqSlot)
  \/ UpdatePollGetUser(SeqSlot)
  \/ UpdatePollRead(SeqSlot)
  \/ UpdatePollWrite(SeqSlot)

SpecVal == Init /\ [][NextVal]_vars

\* inputs of the pages: the token in the form data is the stored one, the
\* other value, or missing; option lists validateForm refuses (one option),
\* createPoll accepts (two) and createPoll alone refuses (MaxOptions + 1)
PresentedTokens == TokenValues \cup {NoToken}

Texts(n) == [i \in 1..n |-> Opt(i)]

FormOptions == {Texts(1), Texts(2), Texts(MaxOptions + 1)}

\* "a@b.c", "ab"
Emails == {KnownEmail, <<97, 98>>}

Passwords == {KnownPassword, <<32>>}

PageIds == {Uuid(1), NoId}

\* one browser tab goes through the pages; the runs of its submit handlers
\* call their server actions against services that can fail
NextToken ==
  \/ \E f \in Forms : Mount(f)
  \/ Leave
  \/ \E t \in PresentedTokens, o \in FormOptions : PollCreateSubmit(t, QuestionText, o)
  \/ \E o \in Selections : HandleVote(o)
  \/ \E e \in Emails, pw \in Passwords, t \in PresentedTokens : LoginSubmit(e, pw, t)
  \/ \E h \in Procs :
       \/ \E c \in Callers : PollCreateInvoke(h, c)
       \/ CreatePollGetUser(h)
       \/ CreatePollInsert(h)
       \/ PollCreateResult(h)
       \/ \E c \in Callers, id \in PageIds : VoteInvoke(h, c, id)
       \/ VoteResult(h)
       \/ LoginInvoke(h)
       \/ LoginSignIn(h)
       \/ LoginResult(h)

SpecToken == Init /\ [][NextToken]_vars

\* inputs of the option-range runs: the owner creates the first poll with
\* three options and cuts it to two; a voter picks the last of the three, the
\* first, or one past the end
IndexInputs == {Number(0, FALSE), Number(2, FALSE), Number(3, FALSE)}

\* the owner's createPoll and updatePoll and a voter's submitVote interleave
NextIndex ==
  \E p \in Procs :
    \/ CreatePollCall(p, "u1", QuestionText, Distinct(3))
    \/ UpdatePollCall(p, "u1", Uuid(1), OtherQuestionText, Distinct(2))
    \/ \E x \in IndexInputs : SubmitVoteCall(p, "u2", Uuid(1), x)
    \/ CreatePollGetUser(p)
    \/ CreatePollInsert(p)
    \/ UpdatePollGetUser(p)
    \/ UpdatePollRead(p)
    \/ UpdatePollWrite(p)
    \/ SubmitVoteReadPoll(p)
    \/ SubmitVoteGetUser(p)
    \/ SubmitVoteCheck(p)
    \/ SubmitVoteInsert(p)
    \/ SubmitVoteResults(p)

SpecIndex == InitReliable /\ [][NextIndex]_vars

\* the owner creates the first poll, deletes it and reads it, a voter votes
\* on it, all interleaved, against services that never fail
NextDelete ==
  \E p \in Procs :
    \/ CreatePollCall(p, "u1", QuestionText, Distinct(2))
    \/ SubmitVoteCall(p, "u2", Uuid(1), Number(0, FALSE))
    \/ DeletePollCall(p, "u1", Uuid(1))
    \/ GetPollById(p, Uuid(1))
    \/ CreatePollGetUser(p)
    \/ CreatePollInsert(p)
    \/ SubmitVoteReadPoll(p)
    \/ SubmitVoteGetUser(p)
    \/ SubmitVoteCheck(p)
    \/ SubmitVoteInsert(p)
    \/ SubmitVoteResults(p)
    \/ DeletePollGetUser(p)
    \/ DeletePollRead(p)
    \/ DeletePollVotes(p)
    \/ DeletePollDelete(p)

SpecDelete == InitReliable /\ [][NextDelete]_vars

\* two polls of two owners, each with a vote of the other user
InitFrame ==
  /\ polls = <<[user_id |-> "u1", question |-> QuestionText,
                options |-> <<Opt(1), Opt(2)>>, created_at |-> 0],
               [user_id |-> "u2", question |-> QuestionText,
                options |-> <<Opt(1), Opt(2)>>, created_at |-> 1]>>
  /\ votes = SetToBag({[poll_id |-> 1, user_id |-> "u2", option_index |-> Number(0, FALSE)],
                       [poll_id |-> 2, user_id |-> "u1", option_index |-> Number(1, FALSE)]})
  /\ nextPollId = 3
  /\ now = 2
  /\ faulty = TRUE
  /\ accounts = {KnownAccount}
  /\ req = [p \in Procs |-> IdleReq]
  /\ sessionStorage = [k \in StorageKeys |-> NoToken]
  /\ page = NoPage
  /\ tokenLog = NoTokenLog

FrameEntries == {Distinct(2), Padded(3)}

\* both users update both polls, interleaved
NextFrame ==
  \E p \in Procs :
    \/ \E c \in Users, id \in {Uuid(1), Uuid(2)}, e \in FrameEntries :
         UpdatePollCall(p, c, id, OtherQuestionText, e)
    \/ UpdatePollGetUser(p)
    \/ UpdatePollRead(p)
    \/ UpdatePollWrite(p)

SpecFrame == InitFrame /\ [][NextFrame]_vars

\* inputs of register and login: the known email as it is and in capitals
\* with white space around it, "x@y.z", and none; the known password,
\* "otherpass", "Password", "12345678", "QWERTY123", "short" and none
AuthEmails == {KnownEmail, <<32, 65, 64, 66, 46, 67, 32>>, <<120, 64, 121, 46, 122>>, <<>>}

AuthPasswords ==
  {KnownPassword, <<111, 116, 104, 101, 114, 112, 97, 115, 115>>, <<80, 97, 115, 115, 119, 111, 114, 100>>,
   <<49, 50, 51, 52, 53, 54, 55, 56>>, <<81, 87, 69, 82, 84, 89, 49, 50, 51>>,
   <<115, 104, 111, 114, 116>>, <<>>}

AuthNames == {<<110>>, <<>>}

\* register and login are called one after the other
NextAuth ==
  \/ \E e \in AuthEmails, pw \in AuthPasswords, n \in AuthNames :
       RegisterCall(SeqSlot, e, pw, n)
  \/ RegisterSignUp(SeqSlot)
  \/ \E e \in AuthEmails, pw \in AuthPasswords : LoginCall(SeqSlot, e, pw)
  \/ LoginSignIn(SeqSlot)

SpecAuth == Init /\ [][NextAuth]_vars

\* inputs of the failure-order runs: one option, two options, two options
\* and a repeat of the first
OrderEntries == {Distinct(1), Distinct(2), WithRepeat(2)}

\* signed-in and anonymous callers call createPoll and updatePoll one after
\* the other, with valid and invalid questions and option lists
NextOrder ==
  \/ \E c \in Callers, q \in ValQuestions, e \in OrderEntries :
       CreatePollCall(SeqSlot, c, q, e)
  \/ \E c \in Callers, q \in ValQuestions, e \in OrderEntries :
       UpdatePollCall(SeqSlot, c, Uuid(1), q, e)
  \/ CreatePollGetUser(SeqSlot)
  \/ CreatePollInsert(SeqSlot)
  \/ UpdatePollGetUser(SeqSlot)
  \/ UpdatePollRead(SeqSlot)
  \/ UpdatePollWrite(SeqSlot)

SpecOrder == Init /\ [][NextOrder]_vars

\* the key of a poll created before the runs start; generated keys never
\* repeat it
ExistingPollId == MaxPolls + 1

\* a poll of user u2 exists and has a vote of user u1
InitCreate ==
  /\ polls = (ExistingPollId :> [user_id |-> "u2", question |-> QuestionText,
                                 options |-> <<Opt(1), Opt(2)>>, created_at |-> 0])
  /\ votes = SetToBag({[poll_id |-> ExistingPollId, user_id |-> "u1",
                        option_index |-> Number(0, FALSE)]})
  /\ nextPollId = 1
  /\ now = 1
  /\ faulty = TRUE
  /\ accounts = {KnownAccount}
  /\ req = [p \in Procs |-> IdleReq]
  /\ sessionStorage = [k \in StorageKeys |-> NoToken]
  /\ page = NoPage
  /\ tokenLog = NoTokenLog

CreateQuestions == {<<>>, QuestionText, Pad(QuestionText)}

CreateEntries == {Distinct(1), Padded(3), WithBlanks(2)}

\* signed-in and anonymous callers create polls, interleaved
NextCreate ==
  \E p \in Procs :
    \/ \E c \in Callers, q \in CreateQuestions, e \in CreateEntries :
         CreatePollCall(p, c, q, e)
    \/ CreatePollGetUser(p)
    \/ CreatePollInsert(p)

SpecCreate == InitCreate /\ [][NextCreate]_vars

\* the create-poll page with time passing between its steps
NextExpiry ==
  \/ Mount("PollCreateForm")
  \/ Leave
  \/ TimePasses
  \/ \E t \in PresentedTokens, o \in {Texts(1), Texts(2)} :
       PollCreateSubmit(t, QuestionText, o)
  \/ \E h \in Procs :
       \/ \E c \in Callers : PollCreateInvoke(h, c)
       \/ CreatePollGetUser(h)
       \/ CreatePollInsert(h)
       \/ PollCreateResult(h)

SpecExpiry == Init /\ [][NextExpiry]_vars

(* ------------------------------- claims -------------------------------- *)

\* the number of votes the table holds for voter u on poll n
VoteCount(n, u) == BagCardinality(VotesOf(n, u))

\* slot p has a request that has returned
Returned(p) == req[p].pc = "done"

\* slot p took a step
Stepped(p) == req'[p] /= req[p]

\* C1: after any sequence of submitVote calls run one after the other, the
\* votes table holds at most one vote per (poll, voter) with a non-null
\* voter, and a submitVote that returns success for a signed-in voter leaves
\* exactly one vote of that voter on that poll.
C1_OneVotePerVoterSequential ==
  /\ \A v \in BagToSet(votes) :
       v.user_id /= NoUser => VoteCount(v.poll_id, v.user_id) <= 1
  /\ \A p \in Procs :
       (Returned(p) /\ req[p].op = "submitVote" /\ req[p].result = Success
          /\ req[p].caller /= NoUser)
         => VoteCount(req[p].id.n, req[p].caller) = 1

\* slot p has inserted its vote: it is past the insert or has returned success
Voted(p) ==
  /\ req[p].op = "submitVote"
  /\ \/ req[p].pc = "vote_results"
     \/ Returned(p) /\ req[p].result = Success

\* C2: of the submitVote calls of one signed-in voter on one poll that run at
\* the same time, exactly one records a vote: no two slots have both
\* inserted a vote for the same (poll, voter), and the table holds one vote
\* for the pair.
C2_ConcurrentVotesOneSuccess ==
  \A p, q \in Procs :
    (p /= q /\ Voted(p) /\ req[p].caller /= NoUser
       /\ req[q].op = "submitVote" /\ req[q].caller = req[p].caller
       /\ req[q].id = req[p].id)
      => /\ ~Voted(q)
         /\ VoteCount(req[p].id.n, req[p].caller) <= 1

\* the request r is an updatePoll or deletePoll of a signed-in user on a poll
\* that exists and belongs to someone else
NonOwnerRequest(r) ==
  /\ r.op \in {"updatePoll", "deletePoll"}
  /\ r.caller \in Users
  /\ PollRow(r.id) /= 0
  /\ polls[PollRow(r.id)].user_id /= r.caller

\* C3: every step of an updatePoll or deletePoll by a signed-in user who does
\* not own the poll leaves the polls and the votes unchanged, and the
\* request returns an error, whatever the other slot does in between.
C3_NonOwnerNeverMutates ==
  [][\A p \in Procs :
       (Stepped(p) /\ NonOwnerRequest(req'[p]))
         => /\ polls' = polls
            /\ votes' = votes
            /\ req'[p].pc = "done" => req'[p].result /= Success]_vars

\* a non-owner's deletePoll or updatePoll was refused while the poll holds a vote
C3_Witness ==
  \E p \in Procs :
    /\ Returned(p)
    /\ req[p].result \in {ErrNoPermissionDelete, ErrNoPermissionUpdate}
    /\ NonOwnerRequest(req[p])
    /\ VotesOfPoll(PollRow(req[p].id)) /= EmptyBag

\* C4: when deletePoll has returned, either it succeeded and the poll and
\* all its votes are gone, or it returned an error and removed nothing: it
\* never ends with votes removed while the poll still exists.
C4_DeleteIsOneUnit ==
  \A p \in Procs :
    (Returned(p) /\ req[p].op = "deletePoll")
      => IF req[p].result = Success
         THEN /\ PollRow(req[p].id) = 0
              /\ VotesOfPoll(req[p].id.n) = EmptyBag
         ELSE req[p].removed = EmptyBag

\* C5: a deletePoll whose deletion of the votes fails returns the error at
\* once, with polls and votes untouched; it goes on to delete the poll only
\* when the poll's votes are gone.
C5_VotesFailureStopsDelete ==
  [][\A p \in Procs :
       (req[p].pc = "delete_votes" /\ Stepped(p))
         => \/ /\ req'[p].pc = "delete_poll"
               /\ \A v \in BagToSet(votes') : v.poll_id /= req[p].id.n
            \/ /\ req'[p].pc = "done"
               /\ req'[p].result = ErrDeleteVotesFailed
               /\ polls' = polls
               /\ votes' = votes]_vars

\* the deletion of the votes failed: the owner's deletePoll returned that
\* error, and the poll and its votes are still there
C5_Witness ==
  \E p \in Procs :
    /\ Returned(p)
    /\ req[p].result = ErrDeleteVotesFailed
    /\ PollRow(req[p].id) /= 0
    /\ VotesOfPoll(req[p].id.n) /= EmptyBag

\* C6: every vote in the table references a poll that is in the table.
C6_NoOrphanedVotes ==
  \A v \in BagToSet(votes) : v.poll_id \in DOMAIN polls

\* the places of the entries that are texts with something left after trimming
Kept(entries) ==
  {i \in DOMAIN entries : entries[i].isString /\ Trim(entries[i].text) /= <<>>}

\* no two kept entries have the same text after trimming
KeptDistinct(entries) ==
  LET kept == Kept(entries)
      text == [i \in kept |-> Trim(entries[i].text)] IN
  \A i \in kept : \A j \in kept : text[i] = text[j] => i = j

\* the question has something left after trimming
QuestionGiven(r) == Trim(r.question) /= <<>>

ValidationErrors == {ErrQuestion, ErrTwoOptions, ErrUnique, ErrMaxOptions, ErrInvalidId}

\* the request r got past the validation of its input
PassedValidation(r) ==
  r.pc /= "idle" /\ (r.pc = "done" => r.result \notin ValidationErrors)

\* C7: every poll in the table has at least two options, every option is
\* non-empty and has no white space at either end, and no two options of a
\* poll are equal.
C7_StoredOptionsWellFormed ==
  \A n \in DOMAIN polls :
    LET o == polls[n].options IN
    /\ Len(o) >= 2
    /\ \A i \in DOMAIN o :
         /\ o[i] /= <<>>
         /\ o[i][1] \notin WhiteSpace
         /\ o[i][Len(o[i])] \notin WhiteSpace
    /\ \A i, j \in DOMAIN o : i /= j => o[i] /= o[j]

\* an updatePoll whose option list had padded, empty or File entries has
\* written the poll
C7_Witness ==
  \E p \in Procs :
    /\ Returned(p) /\ req[p].op = "updatePoll" /\ req[p].result = Success
    /\ PollRow(req[p].id) /= 0
    /\ \E i \in DOMAIN req[p].entries :
         ~req[p].entries[i].isString
           \/ req[p].entries[i].text /= Trim(req[p].entries[i].text)
           \/ req[p].entries[i].text = <<>>

\* C8: createPoll's validation and updatePoll's validation accept the same
\* (question, options) inputs, and every poll in the table has between
\* MinOptions and MaxOptions options.
C8_SameRulesCreateUpdate ==
  /\ \A p \in Procs :
       req[p].op \in {"createPoll", "updatePoll"}
         => (CreatePollValidate(req[p].question, req[p].entries) = Success
               <=> UpdatePollValidate(req[p].question, req[p].entries) = Success)
  /\ \A n \in DOMAIN polls :
       Len(polls[n].options) \in MinOptions..MaxOptions

\* C9: a createPoll with a question and pairwise distinct options returns
\* the insufficient-options error with fewer than 2 kept options, the
\* too-many-options error with more than 20, and passes validation with
\* every count from 2 to 20.
C9_OptionCountBounds ==
  \A p \in Procs :
    LET r == req[p]
        k == Cardinality(Kept(r.entries)) IN
    (r.op = "createPoll" /\ QuestionGiven(r) /\ KeptDistinct(r.entries))
      => /\ k < 2 => (r.pc = "done" /\ r.result = ErrTwoOptions)
         /\ k > 20 => (r.pc = "done" /\ r.result = ErrMaxOptions)
         /\ k \in 2..20 => PassedValidation(r)

\* createPoll has inserted a poll with exactly 20 options
C9_Witness ==
  \E p \in Procs :
    /\ Returned(p) /\ req[p].op = "createPoll" /\ req[p].result = Success
    /\ Cardinality(Kept(req[p].entries)) = 20
    /\ KeptDistinct(req[p].entries)
    /\ Len(polls[req[p].id.n].options) = 20

\* two text entries of the list are equal after trimming
EqualAfterTrim(entries) ==
  \E i, j \in DOMAIN entries :
    /\ i /= j
    /\ entries[i].isString /\ entries[j].isString
    /\ Trim(entries[i].text) = Trim(entries[j].text)

\* the texts the kept entries leave, in their order
KeptTexts(entries) ==
  LET kept == SelectSeq(entries, LAMBDA e : e.isString /\ Trim(e.text) /= <<>>) IN
  [i \in DOMAIN kept |-> Trim(kept[i].text)]

\* no poll in the table holds the option list of the request r
NotPersisted(r) ==
  \A n \in DOMAIN polls : polls[n].options /= KeptTexts(r.entries)

\* the request r is a createPoll or updatePoll that gives a question and,
\* for updatePoll, a poll id that is not blank
PollInputGiven(r) ==
  /\ r.op \in {"createPoll", "updatePoll"}
  /\ QuestionGiven(r)
  /\ r.op = "updatePoll" => r.id.kind /= "blank"

\* C10 as stated: a createPoll or updatePoll (with a question and a poll id
\* given) whose option list has two entries equal after trimming has
\* returned the duplicate-options error and its options are in no poll of
\* the table.
C10_DuplicatesRejected ==
  \A p \in Procs :
    (PollInputGiven(req[p]) /\ EqualAfterTrim(req[p].entries))
      => /\ Returned(p)
         /\ req[p].result = ErrUnique
         /\ NotPersisted(req[p])

\* C10 as amended: a createPoll or updatePoll with a question (and, for
\* updatePoll, a poll id that is not blank) whose option list has two
\* entries that are equal and non-empty after trimming has returned the
\* duplicate-options error and its options are in no poll of the table.
C10_NonEmptyDuplicatesRejected ==
  \A p \in Procs :
    (PollInputGiven(req[p]) /\ ~KeptDistinct(req[p].entries))
      => /\ Returned(p)
         /\ req[p].result = ErrUnique
         /\ NotPersisted(req[p])

\* an updatePoll of an existing poll was refused for a repeated option
C10_Witness ==
  \E p \in Procs :
    /\ Returned(p) /\ req[p].op = "updatePoll" /\ req[p].result = ErrUnique
    /\ ~KeptDistinct(req[p].entries)
    /\ PollRow(req[p].id) /= 0

\* the request r needs an identity and has none: nobody is signed in, or the
\* lookup of the user has not succeeded
NoIdentity(r) ==
  /\ r.op \in {"createPoll", "updatePoll", "deletePoll"}
  /\ r.caller = NoUser \/ r.user = NoUser

\* C11: a createPoll, updatePoll or deletePoll without an authenticated
\* identity (nobody signed in, or the lookup of the user failed) changes
\* neither polls nor votes at any step, never gets past the lookup of the
\* user, and returns an error.
C11_NoIdentityNoEffect ==
  [][\A p \in Procs :
       (Stepped(p) /\ NoIdentity(req'[p]))
         => /\ polls' = polls
            /\ votes' = votes
            /\ req'[p].pc \in {"create_user", "update_user", "delete_user", "done"}
            /\ req'[p].pc = "done" => req'[p].result /= Success]_vars

\* with a poll and a vote in the tables, a request of nobody signed in was
\* turned away at the lookup of the user
C11_Witness ==
  \E p \in Procs :
    /\ Returned(p)
    /\ req[p].caller = NoUser
    /\ req[p].result \in {ErrLoginCreate, ErrLoginUpdate, ErrLoginDelete}
    /\ polls /= <<>>
    /\ votes /= EmptyBag

\* C12: a token that has passed the token check of its page once passes no
\* second time: against the token stored under a key, at most one check
\* passes.
C12_TokenPassesOnce ==
  \A k \in StorageKeys : tokenLog.passed[k] <= 1

\* the page's token check failed in this step
CheckFailed ==
  /\ page'.form = page.form
  /\ page'.error = ErrSecurity
  /\ page.error /= ErrSecurity

\* C13: a failed token check discards the token stored for the page and
\* stores a newly generated one.
C13_FailedCheckRotates ==
  [][CheckFailed
       => /\ tokenLog'.issued = tokenLog.issued + 1
          /\ sessionStorage'[StorageKey(page.form)] \in TokenValues
          /\ tokenLog'.passed[StorageKey(page.form)] = 0]_vars

\* the run h of the page's handler ends in this step, and its server action
\* had created the poll, recorded the vote or signed the user in
OperationSucceeded(h) ==
  /\ page.calls[h].pc = "calling"
  /\ req[h].pc = "done"
  /\ req[h].op \in {"createPoll", "submitVote", "login"}
  /\ req[h].result = Success
  /\ page'.calls[h].pc = "idle"

C15_ActionOnlyAfterTokenCheck ==
  [][/\ \A h \in Procs :
          /\ (page'.calls[h].pc = "calling" /\ page.calls[h].pc = "idle")
               => /\ tokenLog.issued > 0
                  /\ sessionStorage[StorageKey(page.form)] \in TokenValues
                  /\ page'.calls[h].presented = sessionStorage[StorageKey(page.form)]
          /\ (req'[h].pc /= "idle" /\ req[h].pc = "idle")
               => page.calls[h].pc = "calling"
     /\ CheckFailed
          => /\ \A h \in Procs : page'.calls[h].pc = page.calls[h].pc
             /\ req' = req]_vars

\* createPoll, called by the form after a passed token check, has inserted
\* the poll, and a later submission with another token was refused
C15_Witness ==
  /\ polls /= <<>>
  /\ page.form = "PollCreateForm"
  /\ page.error = ErrSecurity
  /\ NoCalls
  /\ \E h \in Procs : page.calls[h].presented /= sessionStorage["pollCsrfToken"]
  /\ \A h \in Procs : req[h].pc = "idle"

\* the vote the step inserts, given that the step inserts one
Inserted == CHOOSE v \in BagToSet(votes') : CopiesIn(v, votes') > CopiesIn(v, votes)

\* C16: every vote, at the step that inserts it, has an option index that is
\* an integer, not negative, and less than the number of options its poll
\* has in the table at that step.
C16_OptionIndexInRange ==
  [][BagCardinality(votes') > BagCardinality(votes)
       => LET v == Inserted IN
          /\ v.option_index.isNumber
          /\ ~v.option_index.frac
          /\ v.option_index.floor >= 0
          /\ v.poll_id \in DOMAIN polls
          /\ v.option_index.floor < Len(polls[v.poll_id].options)]_vars

\* the votes the table holds for poll n on the option with index i
VotesOn(n, i) ==
  BagCardinality([v \in {w \in BagToSet(votes) :
                           w.poll_id = n /\ w.option_index = Number(i, FALSE)}
                    |-> votes[v]])

\* C17: the tally submitVote computes after a vote has an entry for every
\* option index of the poll, the count of the votes on it (0 where there is
\* none), and the entries add up to the number of the poll's votes.
C17_TallyCoversAllOptions ==
  [][\A p \in Procs :
       (req[p].pc = "vote_results" /\ req'[p].pc = "done"
          /\ req'[p].voteCounts.computed /\ req[p].id.n \in DOMAIN polls)
         => LET n == req[p].id.n
                counts == req'[p].voteCounts.counts IN
            /\ DOMAIN counts =
                 {Number(i, FALSE) : i \in 0..(Len(polls[n].options) - 1)}
            /\ \A i \in 0..(Len(polls[n].options) - 1) :
                 Number(i, FALSE) \in DOMAIN counts
                   => counts[Number(i, FALSE)] = VotesOn(n, i)]_vars

\* C18: a signed-in user's deletePoll or updatePoll that is refused at the
\* read of the poll gets the same response whether the poll does not exist
\* or belongs to someone else: the not-found response.
C18_RefusalsLookAlike ==
  \A p \in Procs :
    (Returned(p) /\ req[p].op \in {"updatePoll", "deletePoll"}
       /\ req[p].user \in Users
       /\ req[p].result \in {ErrPollNotFound, ErrNoPermissionDelete, ErrNoPermissionUpdate})
      => req[p].result = ErrPollNotFound

\* C19: when the owner's deletePoll returns success the poll is not in the
\* table and no vote of the table references it, and a getPollById of a poll
\* that is not in the table returns an error.
C19_DeletedPollIsGone ==
  [][\A p \in Procs :
       /\ (Stepped(p) /\ req'[p].op = "deletePoll" /\ req'[p].pc = "done"
             /\ req'[p].result = Success)
            => /\ req'[p].id.n \notin DOMAIN polls'
               /\ \A v \in BagToSet(votes') : v.poll_id /= req'[p].id.n
       /\ (Stepped(p) /\ req'[p].op = "getPollById" /\ PollRow(req'[p].id) = 0)
            => req'[p].result /= Success]_vars

\* C20: no step changes the id, the owner or the creation time of a poll, and
\* a successful updatePoll changes nothing but the question and the options
\* of the poll it names: every other poll and all votes stay as they are.
C20_UpdateFrame ==
  [][/\ \A n \in DOMAIN polls :
          n \in DOMAIN polls'
            => /\ polls'[n].user_id = polls[n].user_id
               /\ polls'[n].created_at = polls[n].created_at
     /\ \A p \in Procs :
          (req[p].pc = "update_write" /\ Stepped(p))
            => /\ votes' = votes
               /\ DOMAIN polls' = DOMAIN polls
               /\ \A n \in DOMAIN polls : n /= req[p].id.n => polls'[n] = polls[n]]_vars

\* an owner's updatePoll has rewritten its poll, next to another owner's
\* poll and the votes on both
C20_Witness ==
  \E p \in Procs :
    /\ Returned(p) /\ req[p].op = "updatePoll" /\ req[p].result = Success
    /\ Cardinality(DOMAIN polls) = 2
    /\ polls[req[p].id.n].question = Trim(OtherQuestionText)
    /\ polls[req[p].id.n].options = <<Opt(1), Opt(2), Opt(3)>>
    /\ \E n \in DOMAIN polls : polls[n].question = QuestionText
    /\ BagCardinality(votes) = 2

\* C21: an updatePoll or deletePoll whose target id is a text that has not
\* the shape of a UUID has returned the error for a malformed id at the
\* call, before any call to the identity service or the store.
C21_MalformedIdRejected ==
  \A p \in Procs :
    (req[p].op \in {"updatePoll", "deletePoll"} /\ req[p].id.kind = "junk")
      => /\ Returned(p)
         /\ req[p].result = ErrInvalidIdFormat

\* C22: submitVote goes on to insert a vote only when the voter has no vote
\* on the poll, so a failed lookup of the existing vote inserts nothing, and
\* it returns success only when it has read and counted the results.
C22_NoSwallowedFailure ==
  [][\A p \in Procs :
       /\ (req[p].pc = "vote_check" /\ req'[p].pc = "vote_insert")
            => VoteCount(req[p].id.n, req[p].user) = 0
       /\ (req[p].pc = "vote_results" /\ req'[p].pc = "done"
             /\ req'[p].result = Success)
            => req'[p].voteCounts.computed]_vars

\* C23: login answers every failure the identity service reports with the
\* same message, whether the email is unknown, the password is wrong or the
\* service has failed: the response does not tell them apart.
C23_LoginErrorsLookAlike ==
  \A p \in Procs :
    (Returned(p) /\ req[p].op = "login"
       /\ req[p].outcome \in {"unknown_email", "wrong_password", "service_error"})
      => req[p].result = ErrInvalidCredentials

\* a login with a known email and a wrong password got the generic message
C23_Witness ==
  \E p \in Procs :
    /\ Returned(p) /\ req[p].op = "login"
    /\ req[p].outcome = "wrong_password"
    /\ req[p].result = ErrInvalidCredentials
    /\ \E a \in accounts : a.email = ToLowerCase(Trim(req[p].email))

\* the register input the checks must refuse: an empty email, password or
\* name, a password of fewer than 8 characters, or a password that is in
\* the list of common passwords once lower-cased
WeakRegistration(r) ==
  \/ r.email = <<>> \/ r.password = <<>> \/ r.name = <<>>
  \/ Len(r.password) < 8
  \/ ToLowerCase(r.password) \in CommonPasswords

\* C30: a register with such an input has returned one of the validation
\* errors without reaching the sign-up of the identity service, and no
\* account has an empty email or password, a password of fewer than 8
\* characters or a common password.
C30_RegisterRefusesWeakInput ==
  /\ \A p \in Procs :
       (req[p].op = "register" /\ WeakRegistration(req[p]))
         => /\ Returned(p)
            /\ req[p].result \in {ErrAllFields, ErrPasswordLength, ErrStrongerPassword}
  /\ \A a \in accounts :
       /\ a.email /= <<>>
       /\ Len(a.password) >= 8
       /\ ToLowerCase(a.password) \notin CommonPasswords

\* a register with the password "Password" was refused as too common, after
\* another register had created an account
C30_Witness ==
  \E p \in Procs :
    /\ Returned(p) /\ req[p].op = "register"
    /\ req[p].result = ErrStrongerPassword
    /\ req[p].password /= ToLowerCase(req[p].password)
    /\ Cardinality(accounts) = 2

\* C26: a state-changing operation reports an identity failure before an
\* input-validation failure: createPoll or updatePoll called by an anonymous
\* caller returns a not-authenticated (or authentication-failed) error, also
\* when its question or option list is invalid.
C26_IdentityFailureFirst ==
  \A p \in Procs :
    (Returned(p) /\ req[p].op \in {"createPoll", "updatePoll"}
       /\ req[p].caller = NoUser)
      => req[p].result \in {ErrLoginCreate, ErrLoginUpdate, ErrAuthFailed}

\* C27: the step on which a createPoll returns success adds exactly one
\* poll, owned by the caller and holding the trimmed question and the
\* trimmed, non-empty options in the order submitted, and leaves every other
\* poll and every vote as it was; every other step of a createPoll, the
\* return of an error included, leaves the polls as they were.
C27_CreateAddsOnePoll ==
  [][\A p \in Procs :
       (Stepped(p) /\ req'[p].op = "createPoll")
         => IF req'[p].pc = "done" /\ req'[p].result = Success
            THEN /\ \E n \in DOMAIN polls' \ DOMAIN polls :
                      /\ DOMAIN polls' = DOMAIN polls \cup {n}
                      /\ req'[p].caller /= NoUser
                      /\ polls'[n].user_id = req'[p].caller
                      /\ polls'[n].question = Trim(req'[p].question)
                      /\ polls'[n].options = KeptTexts(req'[p].entries)
                 /\ \A m \in DOMAIN polls : polls'[m] = polls[m]
                 /\ votes' = votes
            ELSE polls' = polls /\ votes' = votes]_vars

\* a createPoll with a padded question and padded options has returned
\* success next to the poll and the vote that existed before
C27_Witness ==
  \E p \in Procs :
    /\ Returned(p)
    /\ req[p].op = "createPoll"
    /\ req[p].result = Success
    /\ req[p].question = Pad(QuestionText)
    /\ req[p].entries = Padded(3)
    /\ DOMAIN polls = {1, ExistingPollId}
    /\ polls[1].options = <<Opt(1), Opt(2), Opt(3)>>
    /\ BagCardinality(votes) = 1

AnonymousValidVote(r) ==
  /\ r.op = "submitVote"
  /\ r.caller = NoUser
  /\ PollRow(r.id) \in DOMAIN polls
  /\ r.optionIndex.isNumber
  /\ ~r.optionIndex.frac
  /\ r.optionIndex.floor >= 0
  /\ r.optionIndex.floor < Len(polls[PollRow(r.id)].options)

\* the vote the request r should record
AnonymousVote(r) ==
  [poll_id |-> PollRow(r.id), user_id |-> NoUser, option_index |-> r.optionIndex]

C24_OneSubmissionInFlight ==
  Cardinality({h \in Procs : page.calls[h].pc = "calling"}) <= 1

\* the idle period after which a token is to stop verifying, in idle periods
IdleLimit == 1

\* C25: a submission that presents a token older than the idle limit fails
\* the token check: a run of the create-poll form goes on to call createPoll
\* only when the stored token is no older than the idle limit.
C25_OldTokenFails ==
  [][\A h \in Procs :
       (page.form = "PollCreateForm"
          /\ page.calls[h].pc = "idle" /\ page'.calls[h].pc = "calling")
         => tokenLog.age["pollCsrfToken"] <= IdleLimit]_vars

====
